---- MODULE Spec2Model ----
(***************************************************************************)
(* Model of the maintenance dashboard of src/siuu.py: load_data() reads    *)
(* three CSV tables, main() offers a cluster and a machine selector,       *)
(* filters the three tables, and computes the KPIs and the chart series.   *)
(*                                                                         *)
(* A data frame is a record [cols, rows]: the set of its column names and  *)
(* the sequence of its rows.  Every row carries idx, the label pandas      *)
(* gives it at read time and keeps through every filter.  A missing cell   *)
(* of an object column is the marker NaN; a numeric cell is <<v>> or, when *)
(* missing, <<>>.                                                          *)
(***************************************************************************)
EXTENDS Integers, Sequences, FiniteSets, TLC

(***************************************************************************)
(* files          whether each of the three CSV files can be read          *)
(* csv1..csv3     what pd.read_csv finds in them (lines 51, 64, 78)        *)
(* pc             where the pass of main() is                              *)
(* tabla1..3      the tables load_data() returned (line 110)               *)
(* clusters_disp, cluster_sel, maquinas, maquina_sel                       *)
(*                the options and the choices of the sidebar (118-143)     *)
(* t1, t2, t3     the filtered tables (146-162)                            *)
(* total_fallas, texto_maq_top, prom_tiempo, texto_prom, cluster_cat       *)
(*                the KPIs (172-229); texto_prom is KPI 3 as displayed     *)
(* serie_total    the series handed to the line chart (306-320)            *)
(* rendered       the widgets shown so far                                 *)
(* error          the error that ended the pass, "none" if there is none   *)
(***************************************************************************)
VARIABLES files, csv1, csv2, csv3, pc,
          tabla1, tabla2, tabla3,
          clusters_disp, cluster_sel, maquinas, maquina_sel,
          t1, t2, t3,
          total_fallas, texto_maq_top, prom_tiempo, texto_prom, cluster_cat,
          serie_total, rendered, error

vars == <<files, csv1, csv2, csv3, pc, tabla1, tabla2, tabla3,
          clusters_disp, cluster_sel, maquinas, maquina_sel, t1, t2, t3,
          total_fallas, texto_maq_top, prom_tiempo, texto_prom,
          cluster_cat, serie_total, rendered, error>>

(***************************************************************************)
(* Bounds of the explored inputs.                                          *)
(***************************************************************************)
\* The rows of TABLA 1.
MaxRows1 == 2
\* The rows of TABLA 2 and TABLA 3 together, where the machines vary.
MaxRows23 == 2
\* The rows of TABLA 2 and TABLA 3 together, where the values vary.
MaxValueRows == 3

\* A missing cell of an object column, as pd.read_csv yields it.
NaN == "<NaN>"
\* The value of a field whose column the table does not have (never read).
NoCol == "<no column>"

SeqsUpTo(S, n) == UNION {[1..k -> S] : k \in 0..n}

Range(s) == {s[i] : i \in DOMAIN s}

(***************************************************************************)
(* Cell conversions of pandas, on the cells the inputs are drawn from.     *)
(***************************************************************************)
\* Series.astype(str): a missing cell becomes the string "nan".
AsStr(x) == IF x = NaN THEN "nan" ELSE x

\* Series.str.upper()
Upper(s) ==
    CASE s = "a" -> "A"
      [] s = "b" -> "B"
      [] s = " b" -> " B"
      [] s = "nan" -> "NAN"
      [] OTHER -> s

\* Series.str.strip()
Strip(s) ==
    CASE s = " B" -> "B"
      [] s = " b" -> "b"
      [] s = " " -> ""
      [] OTHER -> s

\* pd.to_numeric(errors="coerce"): a cell that is no number becomes missing.
ToNumeric(x) ==
    CASE x = "0" -> <<0>>
      [] x = "1" -> <<1>>
      [] x = "2" -> <<2>>
      [] x = "3" -> <<3>>
      [] OTHER -> <<>>

\* pd.notna / the complement of what dropna removes, for a numeric cell.
NotNa(v) == v # <<>>

\* Series.dropna().unique() of an object column, as a set.
DropNa(S) == S \ {NaN}

EmptyDF == [cols |-> {}, rows |-> <<>>]

IsEmpty(df) == df.rows = <<>>

\* df[mask]: the rows the mask keeps, in order, columns unchanged.
WithRows(df, kept) == [cols |-> df.cols, rows |-> kept]

\* df["Maquina"] as the set of its values.
MaquinaCol(df) == {df.rows[i].Maquina : i \in DOMAIN df.rows}

(***************************************************************************)
(* load_data                                                               *)
(***************************************************************************)
Status == {"ok", "absent", "unreadable"}

\* DataFrame.rename(columns={...}) on the set of column names.
RenameCol(c) ==
    CASE c = "Machine Name" -> "Maquina"
      [] c = "Shift" -> "Turno"
      [] c = "EQ Type" -> "EQ_Type"
      [] OTHER -> c

\* TABLA 1: rename the columns, then Maquina = astype(str).str.upper().
LoadTabla1(csv) ==
    [cols |-> {RenameCol(c) : c \in csv.cols},
     rows |-> [i \in DOMAIN csv.rows |->
                 [idx |-> i,
                  Maquina |-> Upper(AsStr(csv.rows[i].Maquina)),
                  Cluster |-> csv.rows[i].Cluster]]]

\* The Maquina cell of TABLA 2 / TABLA 3: upper-cased only if the column exists.
LoadMaquina(csv, i) ==
    IF "Maquina" \in csv.cols
    THEN Upper(AsStr(csv.rows[i].Maquina))
    ELSE NoCol

\* TABLA 2: Tiempo_Entre_Fallas and Indice_Tiempo coerced to numbers (the
\* Indice_Tiempo cells are numbers already, which to_numeric leaves as they are).
LoadTabla2(csv) ==
    [cols |-> csv.cols,
     rows |-> [i \in DOMAIN csv.rows |->
                 [idx |-> i,
                  Maquina |-> LoadMaquina(csv, i),
                  Indice_Tiempo |-> csv.rows[i].Indice_Tiempo,
                  Tiempo_Entre_Fallas |-> ToNumeric(csv.rows[i].Tiempo_Entre_Fallas)]]]

\* TABLA 3: Forecast and Indice_Tiempo coerced to numbers.
LoadTabla3(csv) ==
    [cols |-> csv.cols,
     rows |-> [i \in DOMAIN csv.rows |->
                 [idx |-> i,
                  Maquina |-> LoadMaquina(csv, i),
                  Indice_Tiempo |-> csv.rows[i].Indice_Tiempo,
                  Forecast |-> ToNumeric(csv.rows[i].Forecast)]]]

\* A slip: only TABLA 1 is required, a table that cannot be read is skipped.
LoadOutcome_FirstOnly ==
    IF files[1] = "ok" THEN "ok"
    ELSE IF files[1] = "absent" THEN "FileNotFoundError" ELSE "OtherError"

\* What load_data() ends with: the three pd.read_csv calls run in order and the
\* first file that cannot be read raises; an absent file raises
\* FileNotFoundError, any other unreadable file another exception.
LoadOutcome ==
    LET bad == {i \in 1..3 : files[i] # "ok"} IN
    IF bad = {} THEN "ok"
    ELSE LET first == CHOOSE i \in bad : \A j \in bad : i <= j IN
         IF files[first] = "absent" THEN "FileNotFoundError" ELSE "OtherError"

(***************************************************************************)
(* main: the sidebar                                                       *)
(***************************************************************************)
\* Options of the cluster selector besides "Todos".
ClustersDisp(tab1) ==
    IF "Cluster" \in tab1.cols
    THEN {AsStr(c) : c \in DropNa({tab1.rows[i].Cluster : i \in DOMAIN tab1.rows})}
    ELSE {}

\* maqs_t1: the machines of TABLA 1, of the selected cluster if there is one.
MaqsT1(tab1, csel) ==
    IF csel = "Todos" \/ "Cluster" \notin tab1.cols
    THEN DropNa(MaquinaCol(tab1))
    ELSE DropNa({tab1.rows[i].Maquina :
                   i \in {j \in DOMAIN tab1.rows : AsStr(tab1.rows[j].Cluster) = csel}})

\* Options of the machine selector besides "Todas".
Maquinas(tab1, tab2, tab3, csel) ==
    MaqsT1(tab1, csel) \cup DropNa(MaquinaCol(tab2)) \cup DropNa(MaquinaCol(tab3))

(***************************************************************************)
(* main: the filters                                                       *)
(***************************************************************************)
ClusterApplies(tab1, csel) == csel # "Todos" /\ "Cluster" \in tab1.cols

\* t1 after the cluster filter.
ClusterT1(tab1, csel) ==
    IF ClusterApplies(tab1, csel)
    THEN WithRows(tab1, SelectSeq(tab1.rows, LAMBDA r : AsStr(r.Cluster) = csel))
    ELSE tab1

\* maquinas_cluster: the machines of the cluster-filtered TABLA 1.
MaquinasCluster(tab1, csel) == DropNa(MaquinaCol(ClusterT1(tab1, csel)))

\* A slip: the machines of the whole TABLA 1 instead of those of the cluster.
ClusterT23_AllMachines(tab, tab1, csel) ==
    IF ClusterApplies(tab1, csel)
    THEN WithRows(tab, SelectSeq(tab.rows, LAMBDA r : r.Maquina \in DropNa(MaquinaCol(tab1))))
    ELSE tab

\* A slip: TABLA 2 and TABLA 3 left as they are by the cluster filter.
ClusterT23_Skipped(tab, tab1, csel) == tab

\* t2 / t3 after the cluster filter.
ClusterT23(tab, tab1, csel) ==
    IF ClusterApplies(tab1, csel)
    THEN WithRows(tab, SelectSeq(tab.rows, LAMBDA r : r.Maquina \in MaquinasCluster(tab1, csel)))
    ELSE tab

\* The additional filter by machine.
MaquinaFilter(tab, msel) ==
    IF msel # "Todas"
    THEN WithRows(tab, SelectSeq(tab.rows, LAMBDA r : r.Maquina = msel))
    ELSE tab

FilterT1(tab1, csel, msel) == MaquinaFilter(ClusterT1(tab1, csel), msel)

\* A slip: the machine filter applied to the whole table, not to the
\* cluster-filtered one.
FilterT23_Widened(tab, tab1, csel, msel) ==
    IF msel # "Todas" THEN MaquinaFilter(tab, msel) ELSE ClusterT23(tab, tab1, csel)

FilterT23(tab, tab1, csel, msel) == MaquinaFilter(ClusterT23(tab, tab1, csel), msel)

(***************************************************************************)
(* main: the KPIs                                                          *)
(***************************************************************************)
\* KPI 1: len(t1) if not t1.empty else 0
TotalFallas(tf1) == IF ~IsEmpty(tf1) THEN Len(tf1.rows) ELSE 0

\* serie_m: the machine names of TABLA 1, stripped, without the blank ones and
\* the "NAN" ones, in row order.
SerieM(tab1) ==
    LET stripped == [i \in DOMAIN tab1.rows |-> Strip(AsStr(tab1.rows[i].Maquina))]
    IN SelectSeq(stripped, LAMBDA m : m # "" /\ Upper(m) # "NAN")

\* value_counts()[m]
Conteo(serie, m) == Cardinality({i \in DOMAIN serie : serie[i] = m})

\* value_counts().max()
ConteoMax(serie) ==
    CHOOSE n \in {Conteo(serie, m) : m \in Range(serie)} :
        \A m \in Range(serie) : Conteo(serie, m) <= n

\* value_counts().idxmax(): value_counts keeps the names of equal count in the
\* order of their first appearance and idxmax returns the first maximum.
IdxMax(serie) ==
    LET max == ConteoMax(serie)
        i == CHOOSE k \in DOMAIN serie :
                 /\ Conteo(serie, serie[k]) = max
                 /\ \A j \in 1..(k-1) : Conteo(serie, serie[j]) # max
    IN serie[i]

SinDatosTop == [kind |-> "Sin datos", maq |-> "", ct |-> 0]

\* KPI 2: the machine with most failures of the whole TABLA 1.
TextoMaqTop(tab1) ==
    IF ~IsEmpty(tab1)
    THEN LET serie_m == SerieM(tab1) IN
         IF serie_m # <<>>
         THEN [kind |-> "top", maq |-> IdxMax(serie_m), ct |-> ConteoMax(serie_m)]
         ELSE SinDatosTop
    ELSE SinDatosTop

\* A slip: KPI 2 computed from the filtered t1.
MaqTopGlobal_Filtered(tab1, tf1) == TextoMaqTop(tf1)

\* KPI 2 is computed from tabla1, whatever the filters left in t1.
MaqTopGlobal(tab1, tf1) == TextoMaqTop(tab1)

RECURSIVE SumCells(_)
\* The sum of the cells of a sequence that are not missing.
SumCells(cells) ==
    IF cells = <<>> THEN 0
    ELSE (IF NotNa(Head(cells)) THEN Head(cells)[1] ELSE 0) + SumCells(Tail(cells))

\* A slip: the missing cells counted as zeros (a fillna(0) before the mean).
Mean_NaAsZero(cells) ==
    IF cells = <<>> THEN [kind |-> "NaN", sum |-> 0, n |-> 0]
    ELSE [kind |-> "num", sum |-> SumCells(cells), n |-> Len(cells)]

\* Series.mean(): missing cells are skipped; NaN when none is left.
Mean(cells) ==
    LET n == Cardinality({i \in DOMAIN cells : NotNa(cells[i])}) IN
    IF n = 0 THEN [kind |-> "NaN", sum |-> 0, n |-> 0]
    ELSE [kind |-> "num", sum |-> SumCells(cells), n |-> n]

\* prom_tiempo: the mean of Tiempo_Entre_Fallas of t2, None if t2 is empty.
PromTiempo(tf2) ==
    IF ~IsEmpty(tf2)
    THEN Mean([i \in DOMAIN tf2.rows |-> tf2.rows[i].Tiempo_Entre_Fallas])
    ELSE [kind |-> "None", sum |-> 0, n |-> 0]

\* f"{x:.2f}" of x = sum / n >= 0, as a number of hundredths: the nearest one,
\* a tie going to the even one.
Fmt2(sum, n) ==
    LET q == (100 * sum) \div n
        r == (100 * sum) % n
    IN IF 2 * r > n \/ (2 * r = n /\ q % 2 = 1) THEN q + 1 ELSE q

\* KPI 3 as displayed.
TextoProm(prom) ==
    IF prom.kind # "None" /\ prom.kind # "NaN"
    THEN [kind |-> "num", cent |-> Fmt2(prom.sum, prom.n)]
    ELSE [kind |-> "Sin datos", cent |-> 0]

\* The order of the cluster strings (upper case sorts before lower case).
StrRank(s) ==
    CASE s = "X" -> 1
      [] s = "Y" -> 2
      [] s = "nan" -> 3
      [] OTHER -> 4

\* Series.mode().iloc[0]: the most frequent value, the smallest one on a tie.
Moda(serie) ==
    CHOOSE m \in Range(serie) :
        /\ Conteo(serie, m) = ConteoMax(serie)
        /\ \A o \in Range(serie) :
              Conteo(serie, o) = ConteoMax(serie) => StrRank(m) <= StrRank(o)

\* A slip: "Sin datos" whenever t1 has no Cluster column, also for "Todas".
ClusterCat_ColumnFirst(tf1, csel, msel) ==
    IF csel # "Todos" THEN csel
    ELSE IF "Cluster" \notin tf1.cols \/ IsEmpty(tf1) THEN "Sin datos"
    ELSE IF msel = "Todas" THEN "Varios"
    ELSE Moda([i \in DOMAIN tf1.rows |-> AsStr(tf1.rows[i].Cluster)])

\* KPI extra: the cluster shown for the current selection.
ClusterCat(tf1, csel, msel) ==
    IF csel # "Todos" THEN csel
    ELSE IF msel = "Todas" THEN "Varios"
    ELSE IF "Cluster" \in tf1.cols /\ ~IsEmpty(tf1)
         THEN Moda([i \in DOMAIN tf1.rows |-> AsStr(tf1.rows[i].Cluster)])
         ELSE "Sin datos"

(***************************************************************************)
(* main: the charts                                                        *)
(***************************************************************************)
\* The bar chart of a column of t1, or the note that replaces it.
BarChart(tf1, col, fig, info) ==
    IF col \in tf1.cols /\ ~IsEmpty(tf1) THEN fig ELSE info

\* serie_real: the rows of t2 with a Tiempo_Entre_Fallas, tagged "Real".
SerieReal(tf2) ==
    LET kept == SelectSeq(tf2.rows, LAMBDA r : NotNa(r.Tiempo_Entre_Fallas)) IN
    [i \in DOMAIN kept |->
        [Indice_Tiempo |-> kept[i].Indice_Tiempo,
         Valor |-> kept[i].Tiempo_Entre_Fallas,
         Tipo |-> "Real"]]

\* serie_fore: the rows of t3 with a Forecast, tagged "Predicción".
SerieFore(tf3) ==
    LET kept == SelectSeq(tf3.rows, LAMBDA r : NotNa(r.Forecast)) IN
    [i \in DOMAIN kept |->
        [Indice_Tiempo |-> kept[i].Indice_Tiempo,
         Valor |-> kept[i].Forecast,
         Tipo |-> "Predicción"]]

\* A slip: the forecast rows left out of the series.
SerieTotal_RealOnly(tf2, tf3) == SerieReal(tf2)

\* serie_total, when the chart is drawn.
SerieTotal(tf2, tf3) ==
    IF ~IsEmpty(tf3) THEN SerieReal(tf2) \o SerieFore(tf3) ELSE SerieReal(tf2)

\* What section 3 shows: the note, the warning or the line chart.
SerieWidget(tf2, csel, msel) ==
    IF csel # "Todos" /\ msel = "Todas" THEN "info_serie"
    ELSE IF IsEmpty(tf2) THEN "warning_serie"
    ELSE "fig_serie"

\* What section 4 shows.
BoxWidget(tf2) == IF ~IsEmpty(tf2) THEN "fig_box" ELSE "info_box"

(***************************************************************************)
(* The inputs: what pd.read_csv finds in the three files.                  *)
(***************************************************************************)
AllOk == [i \in 1..3 |-> "ok"]

Cols1(hasCluster) ==
    {"ID_Falla", "Machine Name", "Shift", "EQ Type"}
        \cup (IF hasCluster THEN {"Cluster"} ELSE {})

Cols2(hasMaquina) ==
    {"Indice_Tiempo", "Tiempo_Entre_Fallas"}
        \cup (IF hasMaquina THEN {"Maquina"} ELSE {})

Cols3(hasMaquina) ==
    {"Indice_Tiempo", "Forecast"} \cup (IF hasMaquina THEN {"Maquina"} ELSE {})

\* TABLA1_FINAL_CON_ID.csv with at most n rows.
Csv1(hasCluster, names, clusters, n) ==
    {[cols |-> Cols1(hasCluster), rows |-> r] :
        r \in SeqsUpTo([Maquina : names,
                        Cluster : IF hasCluster THEN clusters ELSE {NoCol}], n)}

\* TABLA2DASH.csv with at most n rows, the time index counting the rows.
Csv2(hasMaquina, names, values, n) ==
    {[cols |-> Cols2(hasMaquina),
      rows |-> [i \in DOMAIN r |->
                  [Maquina |-> r[i].Maquina, Indice_Tiempo |-> <<i>>,
                   Tiempo_Entre_Fallas |-> r[i].v]]] :
        r \in SeqsUpTo([Maquina : IF hasMaquina THEN names ELSE {NoCol},
                        v : values], n)}

\* TABLA3_FINAL.csv with at most n rows.
Csv3(hasMaquina, names, values, n) ==
    {[cols |-> Cols3(hasMaquina),
      rows |-> [i \in DOMAIN r |->
                  [Maquina |-> r[i].Maquina, Indice_Tiempo |-> <<i>>,
                   Forecast |-> r[i].v]]] :
        r \in SeqsUpTo([Maquina : IF hasMaquina THEN names ELSE {NoCol},
                        v : values], n)}

Input(f, c1, c2, c3) == [f |-> f, c1 |-> c1, c2 |-> c2, c3 |-> c3]

\* TABLA 2 and TABLA 3 of at most n rows together.
Csv23(names, values2, values3, n) ==
    {<<c2, c3>> \in Csv2(TRUE, names, values2, n) \X Csv3(TRUE, names, values3, n) :
        Len(c2.rows) + Len(c3.rows) <= n}

\* Machines and clusters vary: the filters and the selectors.
FilterInputs ==
    {Input(AllOk, c1, c23[1], c23[2]) :
        c1 \in Csv1(TRUE, {"a", "B"}, {"X", "Y", NaN}, MaxRows1)
                 \cup Csv1(FALSE, {"a", "B"}, {}, MaxRows1),
        c23 \in Csv23({"A", "b"}, {"1"}, {"2"}, MaxRows23)}

\* The measured and the forecast values vary: the mean and the series.
ValueInputs ==
    {Input(AllOk, c1, c23[1], c23[2]) :
        c1 \in Csv1(TRUE, {"a"}, {"X"}, 1),
        c23 \in Csv23({"A", "b"}, {"1", "3", "x"}, {"2", "x"}, MaxValueRows)}

\* The machine names of TABLA 1 vary: the machine with most failures.
NameInputs ==
    {Input(AllOk, c1, c2, c3) :
        c1 \in Csv1(TRUE, {"a", "A", "B", " b", " ", NaN}, {"X"}, MaxRows1),
        c2 \in Csv2(TRUE, {}, {}, 0),
        c3 \in Csv3(TRUE, {}, {}, 0)}

\* A file is absent or unreadable.
FileInputs ==
    {Input(f, c1, c2, c3) :
        f \in [1..3 -> Status] \ {AllOk},
        c1 \in Csv1(TRUE, {"a"}, {"X"}, 1),
        c2 \in Csv2(TRUE, {"A"}, {"1"}, 1),
        c3 \in Csv3(TRUE, {"A"}, {"2"}, 1)}

\* TABLA 2 or TABLA 3 has no Maquina column.
ColumnInputs ==
    {Input(AllOk, c1, c2, c3) :
        c1 \in Csv1(TRUE, {"a"}, {"X"}, 1) \cup Csv1(FALSE, {"a"}, {}, 1),
        c2 \in Csv2(TRUE, {"A"}, {"1"}, 1) \cup Csv2(FALSE, {}, {"1"}, 1),
        c3 \in Csv3(TRUE, {"A"}, {"2"}, 1) \cup Csv3(FALSE, {}, {"2"}, 1)}

Inputs == FilterInputs \cup ValueInputs \cup NameInputs \cup FileInputs \cup ColumnInputs

(***************************************************************************)
(* The state machine: one pass of the script per interaction.              *)
(***************************************************************************)
NoTop == [kind |-> "", maq |-> "", ct |-> 0]
NoProm == [kind |-> "", sum |-> 0, n |-> 0]
NoTexto == [kind |-> "", cent |-> 0]

\* The state a pass starts from: nothing loaded, chosen, computed or shown.
Fresh ==
    /\ pc = "start"
    /\ tabla1 = EmptyDF /\ tabla2 = EmptyDF /\ tabla3 = EmptyDF
    /\ clusters_disp = {} /\ cluster_sel = "" /\ maquinas = {} /\ maquina_sel = ""
    /\ t1 = EmptyDF /\ t2 = EmptyDF /\ t3 = EmptyDF
    /\ total_fallas = 0 /\ texto_maq_top = NoTop /\ prom_tiempo = NoProm
    /\ texto_prom = NoTexto
    /\ cluster_cat = ""
    /\ serie_total = <<>> /\ rendered = {} /\ error = "none"

Init ==
    /\ \E in \in Inputs :
          /\ files = in.f
          /\ csv1 = in.c1 /\ csv2 = in.c2 /\ csv3 = in.c3
    /\ Fresh

\* main() up to load_data() returning the three tables.
LoadData ==
    /\ pc = "start"
    /\ LoadOutcome = "ok"
    /\ tabla1' = LoadTabla1(csv1)
    /\ tabla2' = LoadTabla2(csv2)
    /\ tabla3' = LoadTabla3(csv3)
    /\ rendered' = {"title"}
    /\ pc' = "loaded"
    /\ UNCHANGED <<files, csv1, csv2, csv3, clusters_disp, cluster_sel, maquinas,
                   maquina_sel, t1, t2, t3, total_fallas, texto_maq_top,
                   prom_tiempo, texto_prom, cluster_cat, serie_total, error>>

\* load_data() raises FileNotFoundError: st.error and st.stop.
LoadNotFound ==
    /\ pc = "start"
    /\ LoadOutcome = "FileNotFoundError"
    /\ rendered' = {"title", "error"}
    /\ error' = "No se encontro algun archivo .csv"
    /\ pc' = "stopped"
    /\ UNCHANGED <<files, csv1, csv2, csv3, tabla1, tabla2, tabla3, clusters_disp,
                   cluster_sel, maquinas, maquina_sel, t1, t2, t3, total_fallas,
                   texto_maq_top, prom_tiempo, texto_prom, cluster_cat, serie_total>>

\* load_data() raises another exception: main() does not catch it, the pass ends
\* there and the exception is what the page shows.
LoadRaises ==
    /\ pc = "start"
    /\ LoadOutcome = "OtherError"
    /\ rendered' = {"title", "exception"}
    /\ error' = "uncaught exception of read_csv"
    /\ pc' = "raised"
    /\ UNCHANGED <<files, csv1, csv2, csv3, tabla1, tabla2, tabla3, clusters_disp,
                   cluster_sel, maquinas, maquina_sel, t1, t2, t3, total_fallas,
                   texto_maq_top, prom_tiempo, texto_prom, cluster_cat, serie_total>>

\* The two selectors of the sidebar, each returning one of its options.
Sidebar ==
    /\ pc = "loaded"
    /\ "Maquina" \in tabla2.cols /\ "Maquina" \in tabla3.cols
    /\ clusters_disp' = ClustersDisp(tabla1)
    /\ \E c \in {"Todos"} \cup ClustersDisp(tabla1) :
          /\ cluster_sel' = c
          /\ maquinas' = Maquinas(tabla1, tabla2, tabla3, c)
          /\ \E m \in {"Todas"} \cup Maquinas(tabla1, tabla2, tabla3, c) :
                maquina_sel' = m
    /\ rendered' = rendered \cup {"selectbox_cluster", "selectbox_maquina"}
    /\ pc' = "selected"
    /\ UNCHANGED <<files, csv1, csv2, csv3, tabla1, tabla2, tabla3, t1, t2, t3,
                   total_fallas, texto_maq_top, prom_tiempo, texto_prom, cluster_cat,
                   serie_total, error>>

\* The sidebar when TABLA 2 or TABLA 3 has no Maquina column: the cluster
\* selector is shown, then tabla2["Maquina"] or tabla3["Maquina"] raises KeyError.
SidebarKeyError ==
    /\ pc = "loaded"
    /\ ~("Maquina" \in tabla2.cols /\ "Maquina" \in tabla3.cols)
    /\ clusters_disp' = ClustersDisp(tabla1)
    /\ \E c \in {"Todos"} \cup ClustersDisp(tabla1) : cluster_sel' = c
    /\ rendered' = rendered \cup {"selectbox_cluster", "exception"}
    /\ error' = "KeyError: 'Maquina'"
    /\ pc' = "raised"
    /\ UNCHANGED <<files, csv1, csv2, csv3, tabla1, tabla2, tabla3, maquinas,
                   maquina_sel, t1, t2, t3, total_fallas, texto_maq_top,
                   prom_tiempo, texto_prom, cluster_cat, serie_total>>

\* The rest of main(): the filters, the KPIs and the charts.
Render ==
    /\ pc = "selected"
    /\ LET tf1 == FilterT1(tabla1, cluster_sel, maquina_sel)
           tf2 == FilterT23(tabla2, tabla1, cluster_sel, maquina_sel)
           tf3 == FilterT23(tabla3, tabla1, cluster_sel, maquina_sel)
           serie == SerieWidget(tf2, cluster_sel, maquina_sel)
       IN /\ t1' = tf1 /\ t2' = tf2 /\ t3' = tf3
          /\ total_fallas' = TotalFallas(tf1)
          /\ texto_maq_top' = MaqTopGlobal(tabla1, tf1)
          /\ prom_tiempo' = PromTiempo(tf2)
          /\ texto_prom' = TextoProm(PromTiempo(tf2))
          /\ cluster_cat' = ClusterCat(tf1, cluster_sel, maquina_sel)
          /\ serie_total' = IF serie = "fig_serie" THEN SerieTotal(tf2, tf3) ELSE <<>>
          /\ rendered' = rendered \cup
                {"metric_total", "metric_maq_top", "metric_prom", "metric_cluster",
                 BarChart(tf1, "Turno", "fig_turnos", "info_turnos"),
                 BarChart(tf1, "EQ_Type", "fig_ubic", "info_ubic"),
                 serie, BoxWidget(tf2)}
    /\ pc' = "done"
    /\ UNCHANGED <<files, csv1, csv2, csv3, tabla1, tabla2, tabla3, clusters_disp,
                   cluster_sel, maquinas, maquina_sel, error>>

\* The next interaction runs the script again from the top, on the same files.
Rerun ==
    /\ pc \in {"done", "stopped", "raised"}
    /\ pc' = "start"
    /\ tabla1' = EmptyDF /\ tabla2' = EmptyDF /\ tabla3' = EmptyDF
    /\ clusters_disp' = {} /\ cluster_sel' = "" /\ maquinas' = {}
    /\ maquina_sel' = ""
    /\ t1' = EmptyDF /\ t2' = EmptyDF /\ t3' = EmptyDF
    /\ total_fallas' = 0 /\ texto_maq_top' = NoTop /\ prom_tiempo' = NoProm
    /\ texto_prom' = NoTexto
    /\ cluster_cat' = ""
    /\ serie_total' = <<>> /\ rendered' = {} /\ error' = "none"
    /\ UNCHANGED <<files, csv1, csv2, csv3>>

Next ==
    \/ LoadData
    \/ LoadNotFound
    \/ LoadRaises
    \/ Sidebar
    \/ SidebarKeyError
    \/ Render
    \/ Rerun

Spec == Init /\ [][Next]_vars

(***************************************************************************)
(* The properties.                                                         *)
(***************************************************************************)
Done == pc = "done"

\* The rows of TABLA 1 whose cluster is the selected one.
RowsOfCluster == {r \in Range(tabla1.rows) : AsStr(r.Cluster) = cluster_sel}

\* The distinct machines of those rows.
MachinesOfCluster == {r.Maquina : r \in RowsOfCluster}

MachinesIn(df) == {r.Maquina : r \in Range(df.rows)}

\* C1: with a cluster other than "Todos" selected and machine "Todas", the
\* filtered TABLA 1 holds the rows of that cluster, and a row of TABLA 2
\* (TABLA 3) is in the filtered table if and only if its machine is one of the
\* distinct machines of the cluster-filtered TABLA 1.
C1_ClusterMachineSet ==
    (Done /\ cluster_sel # "Todos" /\ maquina_sel = "Todas") =>
        /\ Range(t1.rows) = RowsOfCluster
        /\ MachinesIn(t1) = MachinesOfCluster
        /\ \A r \in Range(tabla2.rows) :
              r \in Range(t2.rows) <=> r.Maquina \in MachinesOfCluster
        /\ \A r \in Range(tabla3.rows) :
              r \in Range(t3.rows) <=> r.Maquina \in MachinesOfCluster
        /\ Range(t2.rows) \subseteq Range(tabla2.rows)
        /\ Range(t3.rows) \subseteq Range(tabla3.rows)

\* A cluster is selected, TABLA 1 has machines outside it, and the filter kept
\* one row of TABLA 2 or TABLA 3 and dropped another.
C1_Witness ==
    /\ Done /\ cluster_sel # "Todos" /\ maquina_sel = "Todas"
    /\ MachinesIn(tabla1) # MachinesOfCluster
    /\ Len(t2.rows) + Len(t3.rows) > 0
    /\ \/ Len(t2.rows) < Len(tabla2.rows)
       \/ Len(t3.rows) < Len(tabla3.rows)

\* C2: with a specific machine selected, whatever the cluster selection, every
\* row of the three filtered tables has exactly that machine name, and no row
\* is one the cluster filter removed.
C2_MachineExact ==
    (Done /\ maquina_sel # "Todas") =>
        /\ \A r \in Range(t1.rows) : r.Maquina = maquina_sel
        /\ \A r \in Range(t2.rows) : r.Maquina = maquina_sel
        /\ \A r \in Range(t3.rows) : r.Maquina = maquina_sel
        /\ Range(t1.rows) \subseteq Range(tabla1.rows)
        /\ Range(t2.rows) \subseteq Range(tabla2.rows)
        /\ Range(t3.rows) \subseteq Range(tabla3.rows)
        /\ cluster_sel # "Todos" =>
              /\ Range(t1.rows) \subseteq RowsOfCluster
              /\ MachinesIn(t2) \subseteq MachinesOfCluster
              /\ MachinesIn(t3) \subseteq MachinesOfCluster

\* A cluster and a machine are selected, the machine filter removed a row of
\* the cluster from TABLA 1, and rows of that machine are left.
C2_Witness ==
    /\ Done /\ maquina_sel # "Todas" /\ cluster_sel # "Todos"
    /\ t1.rows # <<>>
    /\ Range(t1.rows) # RowsOfCluster
    /\ Len(t2.rows) + Len(t3.rows) > 0

\* C3: when a specific cluster is selected, every machine the machine selector
\* offers besides "Todas" is a machine of that cluster.
C3_OptionsScopedByCluster ==
    (pc \in {"selected", "done"} /\ cluster_sel # "Todos") =>
        maquinas \subseteq MachinesOfCluster

\* C4 as stated: for every selection, a machine with a row in the filtered
\* TABLA 2 or TABLA 3 has a row in the filtered TABLA 1 (stated for a TABLA 1
\* that has rows).
C4_SamePopulation ==
    (Done /\ tabla1.rows # <<>>) => (MachinesIn(t2) \cup MachinesIn(t3)) \subseteq MachinesIn(t1)

\* C4, amended: the same, for the selections with a specific cluster.
C4_SamePopulationInCluster ==
    (Done /\ cluster_sel # "Todos") =>
        (MachinesIn(t2) \cup MachinesIn(t3)) \subseteq MachinesIn(t1)

\* A cluster is selected, rows of TABLA 2 or TABLA 3 are left, and TABLA 2 or
\* TABLA 3 held a machine that the filtered TABLA 1 does not.
C4_Witness ==
    /\ Done /\ cluster_sel # "Todos"
    /\ Len(t2.rows) + Len(t3.rows) > 0
    /\ ~((MachinesIn(tabla2) \cup MachinesIn(tabla3)) \subseteq MachinesIn(t1))

\* The orders the rows of a table can be given in.
Reordered(df) ==
    LET n == Len(df.rows)
        perms == {f \in [1..n -> 1..n] : \A i, j \in 1..n : f[i] = f[j] => i = j}
    IN {[cols |-> df.cols, rows |-> [i \in 1..n |-> df.rows[f[i]]]] : f \in perms}

\* The machine names of TABLA 1 that count for KPI 2, and how often each occurs.
ValidNames ==
    {Strip(r.Maquina) : r \in Range(tabla1.rows)} \ {"", "NAN"}

Occurrences(m) ==
    Cardinality({r \in Range(tabla1.rows) : Strip(r.Maquina) = m})

TopMachines == {m \in ValidNames : \A o \in ValidNames : Occurrences(o) <= Occurrences(m)}

C6_SinDatosForAnyMachine ==
    (pc \in {"selected", "done"} /\ "Cluster" \notin tabla1.cols) =>
        /\ clusters_disp = {} /\ cluster_sel = "Todos"
        /\ Done => cluster_cat = "Sin datos"

\* C6, amended: without a Cluster column the cluster selector offers only
\* "Todos"; the cluster metric shows "Varios" for "Todas" and "Sin datos" for
\* every specific machine.
C6_SinDatosForSpecificMachine ==
    (pc \in {"selected", "done"} /\ "Cluster" \notin tabla1.cols) =>
        /\ clusters_disp = {} /\ cluster_sel = "Todos"
        /\ Done =>
              cluster_cat = IF maquina_sel = "Todas" THEN "Varios" ELSE "Sin datos"

\* TABLA 1 has rows and no Cluster column, and a machine of it is selected.
C6_Witness ==
    /\ Done /\ "Cluster" \notin tabla1.cols
    /\ maquina_sel # "Todas"
    /\ t1.rows # <<>>

\* C7: when the three files are read and TABLA 2 or TABLA 3 has no Maquina
\* column, the pass does not end in an exception.
C7_MissingMaquinaTolerated ==
    (files = AllOk /\ ("Maquina" \notin csv2.cols \/ "Maquina" \notin csv3.cols)) =>
        pc # "raised"

\* The entries a series must have: one per filtered row with a value.
RealEntries ==
    {[Indice_Tiempo |-> r.Indice_Tiempo, Valor |-> r.Tiempo_Entre_Fallas, Tipo |-> "Real"] :
        r \in {x \in Range(t2.rows) : x.Tiempo_Entre_Fallas # <<>>}}

ForecastEntries ==
    {[Indice_Tiempo |-> r.Indice_Tiempo, Valor |-> r.Forecast, Tipo |-> "Predicción"] :
        r \in {x \in Range(t3.rows) : x.Forecast # <<>>}}

SerieIsRealAndForecast ==
    /\ "fig_serie" \in rendered
    /\ Range(serie_total) = RealEntries \cup ForecastEntries
    /\ Len(serie_total) = Cardinality(RealEntries) + Cardinality(ForecastEntries)

Suppressed == cluster_sel # "Todos" /\ maquina_sel = "Todas"

\* C8 as stated: whenever the chart is not suppressed, the series is the
\* filtered TABLA 2 rows with a value, tagged "Real", and the filtered TABLA 3
\* rows with a forecast, tagged "Predicción", also when the filtered TABLA 2 has
\* no rows (stated for a filtered TABLA 3 that has forecasts to present).
C8_SerieWheneverNotSuppressed ==
    (Done /\ ~Suppressed /\ ForecastEntries # {}) => SerieIsRealAndForecast

\* C8, amended: the same whenever the chart is not suppressed and the filtered
\* TABLA 2 has rows; when the filtered TABLA 2 has no rows a warning replaces
\* the chart and no series is drawn, whatever the filtered TABLA 3 holds.
C8_SerieWhenTabla2HasRows ==
    (Done /\ ~Suppressed) =>
        IF t2.rows # <<>>
        THEN SerieIsRealAndForecast
        ELSE /\ "warning_serie" \in rendered
             /\ "fig_serie" \notin rendered
             /\ serie_total = <<>>

\* The chart is drawn with a measured and a forecast entry.
C8_Witness ==
    /\ Done /\ ~Suppressed
    /\ "fig_serie" \in rendered
    /\ RealEntries # {} /\ ForecastEntries # {}
    /\ Len(t2.rows) + Len(t3.rows) > Len(serie_total)

RECURSIVE SumOf(_)
\* The sum of the interval values of a set of rows.
SumOf(S) ==
    IF S = {} THEN 0
    ELSE LET r == CHOOSE x \in S : TRUE
         IN r.Tiempo_Entre_Fallas[1] + SumOf(S \ {r})

\* The rows of the filtered TABLA 2 that have an interval value.
Measured == {r \in Range(t2.rows) : r.Tiempo_Entre_Fallas # <<>>}

\* C9: the mean-interval metric shows "Sin datos" when the filtered TABLA 2 is
\* empty or all its interval values are missing, and otherwise the mean of the
\* interval values of the filtered TABLA 2 that are not missing (to two
\* decimals).
C9_MeanOrSinDatos ==
    Done =>
        IF Measured = {}
        THEN texto_prom.kind = "Sin datos"
        ELSE /\ texto_prom.kind = "num"
             /\ texto_prom.cent = Fmt2(SumOf(Measured), Cardinality(Measured))

\* The filtered TABLA 2 has rows, one with a value and one whose cell failed
\* the numeric coercion.
C9_Witness ==
    /\ Done
    /\ Measured # {}
    /\ Cardinality(Measured) < Len(t2.rows)

\* C10: when one of the three files is absent or unreadable, the pass ends
\* with an error shown, and no table, selector, metric or chart is produced.
C10_NoPartialDashboard ==
    (\E i \in 1..3 : files[i] # "ok") =>
        /\ pc \in {"start", "stopped", "raised"}
        /\ tabla1 = EmptyDF /\ tabla2 = EmptyDF /\ tabla3 = EmptyDF
        /\ rendered \subseteq {"title", "error", "exception"}
        /\ pc # "start" =>
              /\ error # "none"
              /\ rendered \cap {"error", "exception"} # {}

\* TABLA 1 and TABLA 2 are read, TABLA 3 is absent, and the pass has stopped.
C10_Witness ==
    /\ files[1] = "ok" /\ files[2] = "ok" /\ files[3] = "absent"
    /\ pc = "stopped"

====
